---- MODULE Spec2Model ----
(***************************************************************************)
(* Model of the @flowline/forms core: the FormState held in one atom, the  *)
(* constructor createForm, and the core actions setRawValue, touch and     *)
(* submit (packages/@flowline/forms/src/actions.ts).                       *)
(*                                                                         *)
(* Every Atom.update / Atom.modify is one atomic step.  A submit call is a *)
(* fiber that runs the effects of its pipeline one after another; other    *)
(* fibers (the input listener calling setRawValue, further submit calls)   *)
(* may run between two of these effects.                                   *)
(***************************************************************************)
EXTENDS Integers, Sequences, FiniteSets, TLC

(***************************************************************************)
(* Bounds.                                                                 *)
(***************************************************************************)
\* number of submit calls (fibers) that can be in progress at the same time;
\* a call that has settled makes room for a new one
MaxCalls == 2

\* the largest number of issues of a drawn ParseError
MaxIssues == 3

\* the largest number of objects on the heap
MaxObjects == 8

\* the largest number of snapshots installed in a bound form
MaxSnapshots == 3

\* the largest number of submit events waiting in the stream of a bound form
MaxPending == 1
MaxCount == 3

Calls == 1..MaxCalls

(***************************************************************************)
(* The schema of examples/forms/src/app.ts: a struct of two                *)
(* Schema.NonEmptyString properties, in declaration order.                 *)
(***************************************************************************)
FieldOrder == <<"firstName", "lastName">>

Fields == {FieldOrder[i] : i \in 1..Len(FieldOrder)}

\* raw strings an input element may hold: the empty string and a non-empty one
RawInputs == {"", "x"}

RawRecords == [Fields -> RawInputs]

(***************************************************************************)
(* Option and Either values of the effect library.                         *)
(***************************************************************************)
None == [_tag |-> "None"]

Some(v) == [_tag |-> "Some", value |-> v]

Left(e) == [_tag |-> "Left", left |-> e]

Right(a) == [_tag |-> "Right", right |-> a]

isLeft(e) == e._tag = "Left"

isRight(e) == e._tag = "Right"

isSome(o) == o._tag = "Some"

isNone(o) == o._tag = "None"

getRight(e) == IF isRight(e) THEN Some(e.right) ELSE None

getLeft(e) == IF isLeft(e) THEN Some(e.left) ELSE None

(***************************************************************************)
(* Schema.NonEmptyString on one property: the issue it raises, if any.     *)
(***************************************************************************)
NonEmptyStringFails(v) == v = ""

FieldIssue(k) == [path |-> <<k>>, message |-> "Expected a non empty string"]

\* the issues of the properties FieldOrder[i..], in declaration order
RECURSIVE StructIssues(_, _)
StructIssues(raw, i) ==
  IF i > Len(FieldOrder) THEN <<>>
  ELSE (IF NonEmptyStringFails(raw[FieldOrder[i]])
          THEN <<FieldIssue(FieldOrder[i])>> ELSE <<>>)
       \o StructIssues(raw, i + 1)

(***************************************************************************)
(* Schema.decodeEither(schema, options)(raw).  A ParseError is the list of *)
(* its issues.  With errors: "all" every failing property is reported;     *)
(* with the library default (errors: "first") decoding stops at the first. *)
(***************************************************************************)
ParseError(issues) == [_tag |-> "ParseError", issues |-> issues]

DecodeEither(raw, errorsOption) ==
  LET issues == StructIssues(raw, 1) IN
  IF issues = <<>> THEN Right(raw)
  ELSE IF errorsOption = "all" THEN Left(ParseError(issues))
  ELSE Left(ParseError(<<Head(issues)>>))

(***************************************************************************)
(* formatErrors (errors.ts): group the issues' messages by joined path;    *)
(* issues with an empty path go under GlobalErrorKey.                      *)
(***************************************************************************)
\* Map keys are strings or symbols; a symbol never equals a string, so a
\* key carries its kind.
StringKey(s) == <<"string", s>>

\* faulty variant: the sentinel is an ordinary string key
GlobalErrorKey_AsString == <<"string", "@flowline/forms/GlobalErrorKey">>

\* Symbol.for("@flowline/forms/GlobalErrorKey")
GlobalErrorKey == <<"symbol", "@flowline/forms/GlobalErrorKey">>

\* path.join(".") of a non-empty path
RECURSIVE JoinPath(_)
JoinPath(path) ==
  IF Len(path) = 1 THEN path[1]
  ELSE path[1] \o "." \o JoinPath(Tail(path))

PathKey(issue) ==
  IF Len(issue.path) = 0 THEN GlobalErrorKey
  ELSE StringKey(JoinPath(issue.path))

\* errorMap.get(key) ?? []
MapGet(map, key) == IF key \in DOMAIN map THEN map[key] ELSE <<>>

MapSet(map, key, v) ==
  [k \in (DOMAIN map) \cup {key} |-> IF k = key THEN v ELSE map[k]]

\* faulty variant: a later issue of a path replaces the earlier ones
FormatStep_Overwrite(errorMap, issue) ==
  MapSet(errorMap, PathKey(issue), <<issue.message>>)

\* one iteration of the for loop
FormatStep(errorMap, issue) ==
  LET pathKey == PathKey(issue)
      existingMessages == MapGet(errorMap, pathKey)
  IN MapSet(errorMap, pathKey, Append(existingMessages, issue.message))

RECURSIVE FormatLoop(_, _)
FormatLoop(issues, errorMap) ==
  IF issues = <<>> THEN errorMap
  ELSE FormatLoop(Tail(issues), FormatStep(errorMap, Head(issues)))

\* ParseResult.ArrayFormatter.formatErrorSync(error) yields the issue list
formatErrors(error) == FormatLoop(error.issues, <<>>)

(***************************************************************************)
(* selectFieldState (core/types.ts): the function the derived atom applies *)
(* to a FormState snapshot s.                                              *)
(***************************************************************************)
\* faulty variant: the error list is looked up under the sentinel key
selectFieldState_GlobalLookup(s, key) ==
  LET formattedErrors ==
        IF isNone(s.errors) THEN <<>> ELSE formatErrors(s.errors.value)
  IN [rawValue     |-> s.rawValues[key],
      value        |-> IF isSome(s.validatedValues)
                       THEN Some(s.validatedValues.value[key]) ELSE None,
      errors       |-> MapGet(formattedErrors, GlobalErrorKey),
      touched      |-> key \in s.touched,
      hasSubmitted |-> s.hasSubmitted]

selectFieldState(s, key) ==
  LET formattedErrors ==
        IF isNone(s.errors) THEN <<>> ELSE formatErrors(s.errors.value)
  IN [rawValue     |-> s.rawValues[key],
      value        |-> IF isSome(s.validatedValues)
                       THEN Some(s.validatedValues.value[key]) ELSE None,
      errors       |-> MapGet(formattedErrors, StringKey(key)),
      touched      |-> key \in s.touched,
      hasSubmitted |-> s.hasSubmitted]

(***************************************************************************)
(* State.                                                                  *)
(***************************************************************************)
VARIABLES
  state,       \* the FormState snapshot held by form.state
  pc,          \* per submit call: the effect of its pipeline it runs next
  effect,      \* per submit call: the effect returned by the Atom.modify guard
  onSubmitArg, \* per submit call: the value onSubmit was invoked with, if it was
  exit,        \* per submit call: the exit of submissionPipeline
  guardRaw,    \* per submit call that won: state.rawValues at its guard step
  handlerExit, \* per submit call: what its onSubmit effect ended with
  formatInput, \* the ParseError handed to formatErrors
  formatResult,\* the map formatErrors returned for it, once it has run
  fieldResult, \* the FieldState selectFieldState computed from it, if any
  heap,        \* the objects allocated so far, by address
  root,        \* the address of the snapshot object the atom holds
  held,        \* a reader's reference to a snapshot and what it saw in it
  scope,       \* the scope runForm opened for a bound form
  task,        \* per background fiber of bindForm: its status
  listeners,   \* the DOM events of the form element that have a handler
  subscribed,  \* the fields whose FieldState atom has a subscriber
  domValue,    \* per input element: its value
  pendingInput,\* the input event Stream.debounce is holding, if any
  submitQueue, \* the submit events emitted into the stream and not yet handled
  mailbox,     \* per field: the FieldStates offered to its stream, not yet taken
  version,     \* the number of snapshots the atom was set to since binding
  delivered,   \* per field: the versions its Stream.tap has been run with
  dom,         \* per input element: its aria-invalid attribute
  eventLog,    \* history: per submit event waiting in the stream, what was true
               \* of the form when it was dispatched
  handled,     \* history: the same of the submit event whose submit call is
               \* past its guard and has not decided what to run, if any
  stateRef,    \* FormService: the FormState held by the SubscriptionRef
  config,      \* FormService: the FormConfig the form was created with
  servicePc,   \* FormService: per calling fiber, where it is in its call
  newValues,   \* setValues: per calling fiber, its local newValues
  valuesToValidate, \* validate: per calling fiber, its local valuesToValidate
  validateExit,     \* per calling fiber: what its validate call ended with
  onSubmitValues,   \* submit: the values onSubmit was invoked with, if it was
  submitResult,     \* submit: what onSubmit ended with, if it has
  submission,       \* submit: the FormSubmissionResult it returned last
  valuesAtSubmit,   \* history: stateRef.values at the moment submit was called,
                    \* and whether no setValues call was under way then
  writtenBy,        \* history: per setValues fiber, the argument of its call
  attempts          \* history: the submit calls that have returned since the
                    \* form was created or reset() was last called on it

coreVars == <<state, pc, effect, onSubmitArg, exit, guardRaw, handlerExit>>

formatVars == <<formatInput, formatResult, fieldResult>>

heapVars == <<heap, root, held>>

bindVars == <<scope, task, listeners, subscribed, domValue, pendingInput,
              submitQueue, mailbox, version, delivered, dom>>

\* the variables no core action touches
eventVars == <<eventLog, handled>>

serviceVars == <<stateRef, config, servicePc, newValues, valuesToValidate,
                 validateExit, onSubmitValues, submitResult, submission,
                 valuesAtSubmit, writtenBy, attempts>>

auxVars == <<formatVars, heapVars, bindVars, eventVars, serviceVars>>

vars == <<coreVars, auxVars>>

(***************************************************************************)
(* createForm: the initial decode and the initial FormState.  The object   *)
(* literal has no hasSubmitted property, so reading it yields undefined;   *)
(* hasSubmitted holds the JavaScript value as a string.                    *)
(***************************************************************************)
createForm(initialValues) ==
  LET validationResult == DecodeEither(initialValues, "first") IN
  [rawValues |-> initialValues,
   validatedValues |-> getRight(validationResult),
   errors |-> getLeft(validationResult),
   touched |-> {},
   isSubmitting |-> FALSE,
   hasSubmitted |-> "undefined"]

CoreInit ==
  /\ \E initialValues \in RawRecords : state = createForm(initialValues)
  /\ pc = [c \in Calls |-> "ready"]
  /\ effect = [c \in Calls |-> None]
  /\ onSubmitArg = [c \in Calls |-> None]
  /\ exit = [c \in Calls |-> None]
  /\ guardRaw = [c \in Calls |-> None]
  /\ handlerExit = [c \in Calls |-> None]

\* formatErrors is not under study
FormatIdle ==
  /\ formatInput = None
  /\ formatResult = None
  /\ fieldResult = None

\* object identity is not under study
HeapIdle ==
  /\ heap = <<>>
  /\ root = 0
  /\ held = None

\* the fibers forked by bindForm, in the order of their Effect.forkScoped
TaskOrder == <<"fieldSync", "submitListener", "inputListener">>

Tasks == {TaskOrder[i] : i \in 1..Len(TaskOrder)}

\* FormService.createForm: the initialState of a form
ServiceInitialState(initialValues) ==
  [values |-> initialValues,
   initialValues |-> initialValues,
   errors |-> <<>>,
   isSubmitting |-> FALSE,
   isValidating |-> FALSE,
   isDirty |-> FALSE,
   isValid |-> TRUE,
   submitCount |-> 0,
   validationCount |-> 0,
   touched |-> <<>>]

\* the fibers that call into a FormService form
ServiceFibers == {"submit", "setValues", "setValues2"}

\* those of them that call setValues
SetValuesFibers == {"setValues", "setValues2"}

\* the FormConfigs drawn: with a non-empty-string schema for every field or
\* with no validations, and with the two flags the calls read
ServiceConfigs ==
  [validations : BOOLEAN, validateOnChange : BOOLEAN, resetOnSubmit : BOOLEAN]

\* no fiber is inside a call
ServiceQuiet ==
  /\ servicePc = [p \in ServiceFibers |-> "idle"]
  /\ newValues = [p \in SetValuesFibers |-> None]
  /\ valuesToValidate = [p \in ServiceFibers |-> None]
  /\ validateExit = [p \in ServiceFibers |-> None]
  /\ onSubmitValues = None
  /\ submitResult = None
  /\ submission = None
  /\ valuesAtSubmit = None
  /\ writtenBy = [p \in SetValuesFibers |-> None]
  /\ attempts = 0

\* no FormService form has been created: there is no stateRef, no config
\* and no fiber that calls it
ServiceIdle ==
  /\ stateRef = <<>>
  /\ config = <<>>
  /\ servicePc = <<>>
  /\ newValues = <<>>
  /\ valuesToValidate = <<>>
  /\ validateExit = <<>>
  /\ onSubmitValues = <<>>
  /\ submitResult = <<>>
  /\ submission = <<>>
  /\ valuesAtSubmit = <<>>
  /\ writtenBy = <<>>
  /\ attempts = 0

\* no history of submit events is kept
EventIdle ==
  /\ eventLog = <<>>
  /\ handled = None

\* the form is not bound to an element: there are no fibers, no input
\* elements and no streams
BindIdle ==
  /\ scope = "unbound"
  /\ task = <<>>
  /\ listeners = {}
  /\ subscribed = {}
  /\ domValue = <<>>
  /\ pendingInput = None
  /\ submitQueue = 0
  /\ mailbox = <<>>
  /\ version = 0
  /\ delivered = <<>>
  /\ dom = <<>>

Init ==
  /\ CoreInit
  /\ FormatIdle
  /\ HeapIdle
  /\ BindIdle
  /\ EventIdle
  /\ ServiceIdle

(***************************************************************************)
(* setRawValue: one Atom.update.                                           *)
(***************************************************************************)
\* a transform that validates the record it read instead of the merged one
SetRawValueTransform_Stale(currentState, key, value) ==
  LET newRawValues == [currentState.rawValues EXCEPT ![key] = value]
      validatedValues == DecodeEither(currentState.rawValues, "all")
  IN [currentState EXCEPT !.rawValues = newRawValues,
                          !.validatedValues = getRight(validatedValues),
                          !.errors = getLeft(validatedValues)]

\* faulty variant: editing a field also marks it as touched
SetRawValueTransform_MarksTouched(currentState, key, value) ==
  LET newRawValues == [currentState.rawValues EXCEPT ![key] = value]
      validatedValues == DecodeEither(newRawValues, "all")
  IN [currentState EXCEPT !.rawValues = newRawValues,
                          !.validatedValues = getRight(validatedValues),
                          !.errors = getLeft(validatedValues),
                          !.touched = currentState.touched \cup {key}]

\* faulty variant: the new record holds the written key only, the other
\* fields fall back to the empty string
SetRawValueTransform_Replace(currentState, key, value) ==
  LET newRawValues == [k \in Fields |-> IF k = key THEN value ELSE ""]
      validatedValues == DecodeEither(newRawValues, "all")
  IN [currentState EXCEPT !.rawValues = newRawValues,
                          !.validatedValues = getRight(validatedValues),
                          !.errors = getLeft(validatedValues)]

SetRawValueTransform(currentState, key, value) ==
  LET newRawValues == [currentState.rawValues EXCEPT ![key] = value]
      validatedValues == DecodeEither(newRawValues, "all")
  IN [currentState EXCEPT !.rawValues = newRawValues,
                          !.validatedValues = getRight(validatedValues),
                          !.errors = getLeft(validatedValues)]

setRawValue(key, value) ==
  /\ state' = SetRawValueTransform(state, key, value)
  /\ UNCHANGED <<pc, effect, onSubmitArg, exit, guardRaw, handlerExit>>

(***************************************************************************)
(* touch: one Atom.update.                                                 *)
(***************************************************************************)
\* faulty variant: the new set holds the touched key only
TouchTransform_Replace(currentState, key) ==
  [currentState EXCEPT !.touched = {key}]

\* faulty variant: touching a touched key removes it
TouchTransform_Toggle(currentState, key) ==
  [currentState EXCEPT !.touched =
     IF key \in currentState.touched
     THEN currentState.touched \ {key}
     ELSE currentState.touched \cup {key}]

\* faulty variant: touching a field validates the form again
TouchTransform_Revalidates(currentState, key) ==
  LET validatedValues == DecodeEither(currentState.rawValues, "all")
  IN [currentState EXCEPT !.touched = currentState.touched \cup {key},
                          !.validatedValues = getRight(validatedValues),
                          !.errors = getLeft(validatedValues)]

TouchTransform(currentState, key) ==
  [currentState EXCEPT !.touched = currentState.touched \cup {key}]

touch(key) ==
  /\ state' = TouchTransform(state, key)
  /\ UNCHANGED <<pc, effect, onSubmitArg, exit, guardRaw, handlerExit>>

(***************************************************************************)
(* Exits of an effect, and the errors submit can fail with.                *)
(***************************************************************************)
Success(v) == [_tag |-> "Success", value |-> v]

Failure(e) == [_tag |-> "Failure", error |-> e]

Interrupt == [_tag |-> "Interrupt"]

FormAlreadySubmittingError ==
  [_tag |-> "@flowline/forms/actions/FormAlreadySubmittingError"]

\* what a caller-supplied onSubmit effect may end with
HandlerError == [_tag |-> "HandlerError"]

HandlerExits == {Success("R"), Failure(HandlerError), Interrupt}

(***************************************************************************)
(* submit, step 1: getRawValuesAndSetSubmitting, one Atom.modify.  The     *)
(* transform returns the pair <<effect, newState>>.                        *)
(***************************************************************************)
GuardTransform(currentState) ==
  IF currentState.isSubmitting
    THEN <<Failure(FormAlreadySubmittingError), currentState>>
    ELSE <<Success(currentState.rawValues),
           [currentState EXCEPT !.isSubmitting = TRUE]>>

\* a new submit call takes the lowest slot that holds no call in progress
Free(c) == pc[c] \in {"ready", "settled"}

getRawValuesAndSetSubmitting(c) ==
  /\ Free(c)
  /\ \A d \in Calls : d < c => ~Free(d)
  /\ LET r == GuardTransform(state) IN
       /\ effect' = [effect EXCEPT ![c] = r[1]]
       /\ state' = r[2]
  /\ guardRaw' = [guardRaw EXCEPT ![c] =
                    IF state.isSubmitting THEN None ELSE Some(state.rawValues)]
  /\ pc' = [pc EXCEPT ![c] = "flatten"]
  /\ onSubmitArg' = [onSubmitArg EXCEPT ![c] = None]
  /\ exit' = [exit EXCEPT ![c] = None]
  /\ handlerExit' = [handlerExit EXCEPT ![c] = None]

(***************************************************************************)
(* submit, step 2: Effect.flatten and the Effect.flatMap callback.  A      *)
(* failing inner effect skips the callback and exits the pipeline; else    *)
(* the callback decodes the rawValues it was given and returns either the  *)
(* update-then-fail effect or the effect of onSubmit.                      *)
(***************************************************************************)
\* a pipeline that reads the atom again instead of using the captured record
PipelineRawValues_ReRead(c, currentState) == currentState.rawValues

\* the record the flatMap callback decodes: the one the guard passed on, not
\* the atom's current one
PipelineRawValues(c, currentState) == effect[c].value

\* faulty variant: the failure of the guard is not propagated and the
\* callback runs on the atom's current rawValues
submissionPipeline_IgnoresGuard(c) ==
  /\ pc[c] = "flatten"
  /\ LET validatedValues ==
           DecodeEither(IF effect[c]._tag = "Failure" THEN state.rawValues
                        ELSE PipelineRawValues(c, state), "all")
     IN IF isLeft(validatedValues)
          THEN /\ pc' = [pc EXCEPT ![c] = "updateErrors"]
               /\ UNCHANGED <<onSubmitArg, exit>>
          ELSE /\ onSubmitArg' =
                    [onSubmitArg EXCEPT ![c] = Some(validatedValues.right)]
               /\ pc' = [pc EXCEPT ![c] = "onSubmit"]
               /\ UNCHANGED exit
  /\ UNCHANGED <<state, effect, guardRaw, handlerExit>>

submissionPipeline(c) ==
  /\ pc[c] = "flatten"
  /\ IF effect[c]._tag = "Failure"
       THEN /\ exit' = [exit EXCEPT ![c] = effect[c]]
            /\ pc' = [pc EXCEPT ![c] = "ensuring"]
            /\ UNCHANGED onSubmitArg
       ELSE LET validatedValues ==
                  DecodeEither(PipelineRawValues(c, state), "all")
            IN IF isLeft(validatedValues)
                 THEN /\ pc' = [pc EXCEPT ![c] = "updateErrors"]
                      /\ UNCHANGED <<onSubmitArg, exit>>
                 ELSE /\ onSubmitArg' =
                           [onSubmitArg EXCEPT ![c] = Some(validatedValues.right)]
                      /\ pc' = [pc EXCEPT ![c] = "onSubmit"]
                      /\ UNCHANGED exit
  /\ UNCHANGED <<state, effect, guardRaw, handlerExit>>

(***************************************************************************)
(* submit, validation-failure branch: Atom.update storing the ParseError,  *)
(* then Effect.fail(validatedValues.left).                                 *)
(***************************************************************************)
\* faulty variant: the update also replaces validatedValues
ValidationFailureTransform_WritesValidated(currentState, validatedValues) ==
  [currentState EXCEPT !.errors = getLeft(validatedValues),
                       !.validatedValues = getRight(validatedValues),
                       !.hasSubmitted = "true"]

ValidationFailureTransform(currentState, validatedValues) ==
  [currentState EXCEPT !.errors = getLeft(validatedValues),
                       !.hasSubmitted = "true"]

\* a failure that carries only the first issue
ValidationFailureExit_FirstOnly(validatedValues) ==
  Failure(ParseError(<<Head(validatedValues.left.issues)>>))

\* the failure the branch ends with
ValidationFailureExit(validatedValues) == Failure(validatedValues.left)

updateErrors(c) ==
  /\ pc[c] = "updateErrors"
  /\ LET validatedValues ==
           DecodeEither(PipelineRawValues(c, state), "all")
     IN /\ state' = ValidationFailureTransform(state, validatedValues)
        /\ exit' = [exit EXCEPT ![c] = ValidationFailureExit(validatedValues)]
  /\ pc' = [pc EXCEPT ![c] = "ensuring"]
  /\ UNCHANGED <<effect, onSubmitArg, guardRaw, handlerExit>>

(***************************************************************************)
(* submit, success branch: the effect returned by onSubmit ends, with a    *)
(* value, with a failure, or by interruption of the fiber.  Its exit is    *)
(* the exit of the pipeline.                                               *)
(***************************************************************************)
\* a pipeline that swallows the handler's failure
OnSubmitExit_Swallow(h) == IF h._tag = "Failure" THEN Success("R") ELSE h

OnSubmitExit(h) == h

onSubmit(c) ==
  /\ pc[c] = "onSubmit"
  /\ \E h \in HandlerExits :
       /\ handlerExit' = [handlerExit EXCEPT ![c] = Some(h)]
       /\ exit' = [exit EXCEPT ![c] = OnSubmitExit(h)]
  /\ pc' = [pc EXCEPT ![c] = "ensuring"]
  /\ UNCHANGED <<state, effect, onSubmitArg, guardRaw>>

(***************************************************************************)
(* submit, step 3: the Effect.ensuring finalizer, one Atom.update.  It     *)
(* runs on every exit of submissionPipeline; the call then settles with    *)
(* the pipeline's exit.                                                    *)
(***************************************************************************)
\* a finalizer that forgets to clear the flag
EnsuringTransform_KeepsFlag(currentState) ==
  [currentState EXCEPT !.hasSubmitted = "true"]

EnsuringTransform(currentState) ==
  [currentState EXCEPT !.isSubmitting = FALSE, !.hasSubmitted = "true"]

\* faulty variant: a finalizer that is not a read-modify-write of the current
\* snapshot: it writes back the rawValues its call read in the guard
ensuring_StaleWrite(c) ==
  /\ pc[c] = "ensuring"
  /\ state' = [EnsuringTransform(state) EXCEPT
                 !.rawValues = IF isSome(guardRaw[c]) THEN guardRaw[c].value
                               ELSE state.rawValues]
  /\ pc' = [pc EXCEPT ![c] = "settled"]
  /\ UNCHANGED <<effect, onSubmitArg, exit, guardRaw, handlerExit>>

ensuring(c) ==
  /\ pc[c] = "ensuring"
  /\ state' = EnsuringTransform(state)
  /\ pc' = [pc EXCEPT ![c] = "settled"]
  /\ UNCHANGED <<effect, onSubmitArg, exit, guardRaw, handlerExit>>

Next ==
  \/ \E key \in Fields, value \in RawInputs :
       setRawValue(key, value) /\ UNCHANGED auxVars
  \/ \E key \in Fields : touch(key) /\ UNCHANGED auxVars
  \/ \E c \in Calls : getRawValuesAndSetSubmitting(c) /\ UNCHANGED auxVars
  \/ \E c \in Calls : submissionPipeline(c) /\ UNCHANGED auxVars
  \/ \E c \in Calls : updateErrors(c) /\ UNCHANGED auxVars
  \/ \E c \in Calls : onSubmit(c) /\ UNCHANGED auxVars
  \/ \E c \in Calls : ensuring(c) /\ UNCHANGED auxVars

Spec == Init /\ [][Next]_vars

(***************************************************************************)
(* The fiber scheduler runs every runnable fiber: each effect of a submit  *)
(* pipeline that is not the caller's handler is eventually executed.  When *)
(* the handler ends is up to the caller.                                   *)
(***************************************************************************)
EngineStep(c) ==
  /\ \/ getRawValuesAndSetSubmitting(c)
     \/ submissionPipeline(c)
     \/ updateErrors(c)
     \/ ensuring(c)
  /\ UNCHANGED auxVars

LiveSpec == Spec /\ \A c \in Calls : WF_vars(EngineStep(c))

(***************************************************************************)
(* formatErrors and selectFieldState as pure functions: a specification    *)
(* that draws a ParseError from the bounded error trees and applies them.  *)
(* The paths cover a form-level issue, the fields of the form, a nested    *)
(* property, a property whose name contains a dot, and a property named    *)
(* like the description of the sentinel symbol.                            *)
(***************************************************************************)
IssuePathsDrawn ==
  {<<>>, <<"firstName">>, <<"lastName">>, <<"address", "city">>,
   <<"address.city">>, <<"@flowline/forms/GlobalErrorKey">>}

IssueMessagesDrawn == {"m1", "m2"}

IssuesDrawn == [path : IssuePathsDrawn, message : IssueMessagesDrawn]

ErrorsDrawn ==
  {ParseError(issues) :
     issues \in UNION {[1..n -> IssuesDrawn] : n \in 0..MaxIssues}}

FormatInit ==
  /\ state = createForm([k \in Fields |-> "x"])
  /\ pc = [c \in Calls |-> "ready"]
  /\ effect = [c \in Calls |-> None]
  /\ onSubmitArg = [c \in Calls |-> None]
  /\ exit = [c \in Calls |-> None]
  /\ guardRaw = [c \in Calls |-> None]
  /\ handlerExit = [c \in Calls |-> None]
  /\ formatInput \in {Some(e) : e \in ErrorsDrawn}
  /\ formatResult = None
  /\ fieldResult = None
  /\ HeapIdle
  /\ BindIdle
  /\ EventIdle
  /\ ServiceIdle

applyFormatErrors ==
  /\ formatResult = None
  /\ formatResult' = Some(formatErrors(formatInput.value))
  /\ UNCHANGED <<coreVars, formatInput, fieldResult, heapVars, bindVars,
                 eventVars, serviceVars>>

\* the derived atom of a field, over a snapshot holding the error
applySelectFieldState(key) ==
  /\ fieldResult' =
       Some([key |-> key,
             fieldState |->
               selectFieldState([state EXCEPT !.errors = formatInput], key)])
  /\ UNCHANGED <<coreVars, formatInput, formatResult, heapVars, bindVars,
                 eventVars, serviceVars>>

FormatNext ==
  \/ applyFormatErrors
  \/ \E key \in Fields : applySelectFieldState(key)

FormatSpec == FormatInit /\ [][FormatNext]_vars

(***************************************************************************)
(* The objects behind a snapshot.  A FormState is an object that refers to *)
(* a rawValues object and a touched Set; the other fields hold immutable   *)
(* values.  Each transform returns a new object literal ({...currentState, *)
(* ...}); which of the two referenced objects it builds anew and which it  *)
(* shares with the previous snapshot is read off its code.  A component    *)
(* that is not built anew but whose contents differ would be a write into  *)
(* the shared object.                                                      *)
(***************************************************************************)
\* setRawValue: {...currentState.rawValues, [key]: value} and a new literal
SetRawValueFresh == {"snapshot", "rawValues"}

\* faulty variant: the key is added to the Set of the current snapshot
TouchFresh_InPlace == {"snapshot"}

\* touch: new Set(currentState.touched).add(key) and a new literal
TouchFresh == {"snapshot", "touched"}

\* the guard returns currentState itself when it rejects, else a new literal
GuardFresh(currentState) ==
  IF currentState.isSubmitting THEN {} ELSE {"snapshot"}

ValidationFailureFresh == {"snapshot"}

EnsuringFresh == {"snapshot"}

\* the contents reachable from the snapshot object at address a
Deref(a) ==
  [heap[a] EXCEPT !.rawValues = heap[heap[a].rawValues],
                  !.touched = heap[heap[a].touched]]

\* the atom is set to the snapshot state', built with the objects in fresh
\* allocated anew
Install(fresh) ==
  LET old == heap[root]
      n == Len(heap)
      rawFresh == "rawValues" \in fresh
      touchedFresh == "touched" \in fresh
      snapFresh == "snapshot" \in fresh
      rawRef == IF rawFresh THEN n + 1 ELSE old.rawValues
      touchedRef == IF touchedFresh
                    THEN n + 1 + (IF rawFresh THEN 1 ELSE 0)
                    ELSE old.touched
      snapRef == IF snapFresh THEN n + Cardinality(fresh) ELSE root
      snapshot == [state' EXCEPT !.rawValues = rawRef, !.touched = touchedRef]
      written == [a \in 1..n |->
                    IF a = rawRef THEN state'.rawValues
                    ELSE IF a = touchedRef THEN state'.touched
                    ELSE IF a = snapRef THEN snapshot
                    ELSE heap[a]]
      allocated == (IF rawFresh THEN <<state'.rawValues>> ELSE <<>>)
                   \o (IF touchedFresh THEN <<state'.touched>> ELSE <<>>)
                   \o (IF snapFresh THEN <<snapshot>> ELSE <<>>)
  IN /\ n + Cardinality(fresh) <= MaxObjects
     /\ heap' = written \o allocated
     /\ root' = snapRef

\* createForm: the initialValues object, new Set() and the initialState
HeapInit ==
  /\ CoreInit
  /\ FormatIdle
  /\ BindIdle
  /\ EventIdle
  /\ ServiceIdle
  /\ heap = <<state.rawValues, state.touched,
              [state EXCEPT !.rawValues = 1, !.touched = 2]>>
  /\ root = 3
  /\ held = None

installSetRawValue(key, value) ==
  /\ setRawValue(key, value)
  /\ Install(SetRawValueFresh)
  /\ UNCHANGED <<held, formatVars, bindVars,
                 eventVars, serviceVars>>

installTouch(key) ==
  /\ touch(key)
  /\ Install(TouchFresh)
  /\ UNCHANGED <<held, formatVars, bindVars,
                 eventVars, serviceVars>>

installGuard(c) ==
  /\ getRawValuesAndSetSubmitting(c)
  /\ Install(GuardFresh(state))
  /\ UNCHANGED <<held, formatVars, bindVars,
                 eventVars, serviceVars>>

\* no Atom.update in these two steps
pipelineStep(c) ==
  /\ submissionPipeline(c) \/ onSubmit(c)
  /\ UNCHANGED <<heapVars, formatVars, bindVars,
                 eventVars, serviceVars>>

installValidationFailure(c) ==
  /\ updateErrors(c)
  /\ Install(ValidationFailureFresh)
  /\ UNCHANGED <<held, formatVars, bindVars,
                 eventVars, serviceVars>>

installEnsuring(c) ==
  /\ ensuring(c)
  /\ Install(EnsuringFresh)
  /\ UNCHANGED <<held, formatVars, bindVars,
                 eventVars, serviceVars>>

\* a reader gets the current snapshot from the atom and keeps the reference
hold ==
  /\ held = None
  /\ held' = Some([snapshot |-> root, contents |-> Deref(root)])
  /\ UNCHANGED <<coreVars, heap, root, formatVars, bindVars,
                 eventVars, serviceVars>>

HeapNext ==
  \/ \E key \in Fields, value \in RawInputs : installSetRawValue(key, value)
  \/ \E key \in Fields : installTouch(key)
  \/ \E c \in Calls : installGuard(c)
  \/ \E c \in Calls : pipelineStep(c)
  \/ \E c \in Calls : installValidationFailure(c)
  \/ \E c \in Calls : installEnsuring(c)
  \/ hold

HeapSpec == HeapInit /\ [][HeapNext]_vars

(***************************************************************************)
(* bindForm under runForm (forms-vanilla/src/binder.ts): a form bound to a *)
(* form element with one input element per field.  bindForm forks three    *)
(* fibers into the scope: the field-state streams, the submit listener and *)
(* the input listener, and then waits forever.  The state is the one       *)
(* reached when the three fibers have started: the DOM listeners are       *)
(* attached and every field stream has subscribed to its FieldState atom   *)
(* and been offered the current value.  The form is the one of the example *)
(* application, created with empty fields.                                 *)
(***************************************************************************)
\* faulty variant: the input listener is forked as a daemon
ForkMode_Daemon(t) == IF t = "inputListener" THEN "daemon" ELSE "scoped"

\* every fiber is forked with Effect.forkScoped
ForkMode(t) == "scoped"

\* the fibers the scope interrupts when it is closed
Owned == {t \in Tasks : ForkMode(t) = "scoped"}

\* the DOM event a listener fiber's fromEvent stream listens to
EventOf(t) ==
  IF t = "submitListener" THEN "submit"
  ELSE IF t = "inputListener" THEN "input"
  ELSE "none"

\* String(hasError)
AriaInvalid(fieldState) ==
  IF Len(fieldState.errors) > 0 THEN "true" ELSE "false"

\* faulty variant: the stream keeps the latest value only
Offer_Sliding(queue, item) == <<item>>

\* Atom.toStream: a value the atom notifies is queued for the stream
Offer(queue, item) == Append(queue, item)

\* the atom was set to the snapshot state': every subscribed FieldState atom
\* is recomputed and its subscriber is called with the new value
Notify ==
  /\ version < MaxSnapshots
  /\ version' = version + 1
  /\ mailbox' = [f \in Fields |->
                   IF f \in subscribed
                   THEN Offer(mailbox[f],
                              [version |-> version + 1,
                               fieldState |-> selectFieldState(state', f)])
                   ELSE mailbox[f]]

\* the initialValues of the example application
ExampleInitialValues == [f \in Fields |-> ""]

BindInit ==
  /\ CoreInit
  /\ state = createForm(ExampleInitialValues)
  /\ FormatIdle
  /\ HeapIdle
  /\ EventIdle
  /\ ServiceIdle
  /\ scope = "open"
  /\ task = [t \in Tasks |-> "running"]
  /\ listeners = {"submit", "input"}
  /\ subscribed = Fields
  /\ domValue = state.rawValues
  /\ pendingInput = None
  /\ submitQueue = 0
  /\ mailbox = [f \in Fields |->
                  <<[version |-> 0, fieldState |-> selectFieldState(state, f)]>>]
  /\ version = 0
  /\ delivered = [f \in Fields |-> <<>>]
  /\ dom = [f \in Fields |-> "unset"]

\* the user edits an input element: its value changes and an input event is
\* dispatched; the handler, if attached, emits it into the debounced stream,
\* which holds the latest event only
dispatchInput(name, value) ==
  /\ value # domValue[name]
  /\ domValue' = [domValue EXCEPT ![name] = value]
  /\ pendingInput' = IF "input" \in listeners THEN Some(name) ELSE pendingInput
  /\ UNCHANGED <<coreVars, formatVars, heapVars, scope, task, listeners,
                 subscribed, submitQueue, mailbox, version, delivered, dom>>

\* the debounce time has passed: the held event goes through flatMap, which
\* reads the target's name and current value and runs setRawValue
debounceElapsed ==
  /\ task["inputListener"] = "running"
  /\ isSome(pendingInput)
  /\ setRawValue(pendingInput.value, domValue[pendingInput.value])
  /\ Notify
  /\ pendingInput' = None
  /\ UNCHANGED <<formatVars, heapVars, scope, task, listeners, subscribed,
                 domValue, submitQueue, delivered, dom>>

\* the user submits the form element: the handler, if attached, emits the
\* event into the stream
dispatchSubmit ==
  /\ "submit" \in listeners
  /\ submitQueue < MaxPending
  /\ submitQueue' = submitQueue + 1
  /\ UNCHANGED <<coreVars, formatVars, heapVars, scope, task, listeners,
                 subscribed, domValue, pendingInput, mailbox, version,
                 delivered, dom>>

\* Stream.flatMap takes the next submit event when the effect of the
\* previous one has ended; submit starts with the guard
handleSubmitEvent ==
  /\ task["submitListener"] = "running"
  /\ submitQueue > 0
  /\ pc[1] \in {"ready", "settled"}
  /\ getRawValuesAndSetSubmitting(1)
  /\ IF state' # state THEN Notify ELSE UNCHANGED <<version, mailbox>>
  /\ submitQueue' = submitQueue - 1
  /\ UNCHANGED <<formatVars, heapVars, scope, task, listeners, subscribed,
                 domValue, pendingInput, delivered, dom>>

bindSubmissionPipeline ==
  /\ task["submitListener"] = "running"
  /\ submissionPipeline(1)
  /\ UNCHANGED <<formatVars, heapVars, bindVars>>

bindUpdateErrors ==
  /\ task["submitListener"] = "running"
  /\ updateErrors(1)
  /\ Notify
  /\ UNCHANGED <<formatVars, heapVars, scope, task, listeners, subscribed,
                 domValue, pendingInput, submitQueue, delivered, dom>>

\* params.onSubmit ends by itself, with a value or with a failure
bindOnSubmit ==
  /\ task["submitListener"] = "running"
  /\ onSubmit(1)
  /\ exit'[1] # Interrupt
  /\ UNCHANGED <<formatVars, heapVars, bindVars>>

\* the finalizer of submit, and what the fiber does with the exit: ParseError
\* and FormAlreadySubmittingError are caught and the stream goes on; any other
\* failure fails the stream, and an interrupted fiber ends: in both cases the
\* fiber is done and the scope of its fromEvent stream removes the listener
bindEnsuring ==
  /\ task["submitListener"] \in {"running", "interrupted"}
  /\ ensuring(1)
  /\ Notify
  /\ IF \/ task["submitListener"] = "interrupted"
        \/ exit[1] = Failure(HandlerError)
     THEN /\ task' = [task EXCEPT !["submitListener"] = "done"]
          /\ listeners' = listeners \ {"submit"}
          /\ submitQueue' = 0
     ELSE UNCHANGED <<task, listeners, submitQueue>>
  /\ UNCHANGED <<formatVars, heapVars, scope, subscribed, domValue,
                 pendingInput, delivered, dom>>

\* Stream.tap of the stream of a field's FieldState
tap(f) ==
  /\ task["fieldSync"] = "running"
  /\ mailbox[f] # <<>>
  /\ LET item == Head(mailbox[f]) IN
       /\ delivered' = [delivered EXCEPT ![f] = Append(@, item.version)]
       /\ dom' = IF item.fieldState.hasSubmitted = "true"
                 THEN [dom EXCEPT ![f] = AriaInvalid(item.fieldState)]
                 ELSE dom
  /\ mailbox' = [mailbox EXCEPT ![f] = Tail(@)]
  /\ UNCHANGED <<coreVars, formatVars, heapVars, scope, task, listeners,
                 subscribed, domValue, pendingInput, submitQueue, version>>

\* the fiber running runForm is interrupted (bindForm itself never returns):
\* Effect.scoped starts closing the scope
closeScope ==
  /\ scope = "open"
  /\ scope' = "closing"
  /\ UNCHANGED <<coreVars, formatVars, heapVars, task, listeners, subscribed,
                 domValue, pendingInput, submitQueue, mailbox, version,
                 delivered, dom>>

\* the finalizers of the scope run one after the other, the last added first
TurnOf(t) ==
  /\ scope = "closing"
  /\ t \in Owned
  /\ task[t] = "running"
  /\ \A i, j \in 1..Len(TaskOrder) :
       (TaskOrder[i] = t /\ j > i /\ TaskOrder[j] \in Owned)
         => task[TaskOrder[j]] = "done"

\* interruption of a fiber that is waiting for events, or of the field-state
\* fiber: it ends, and the scopes of its streams remove the listener, cancel
\* the subscriptions and drop what is queued
interruptIdle(t) ==
  /\ TurnOf(t)
  /\ t = "submitListener" => pc[1] \in {"ready", "settled"}
  /\ task' = [task EXCEPT ![t] = "done"]
  /\ listeners' = listeners \ {EventOf(t)}
  /\ pendingInput' = IF t = "inputListener" THEN None ELSE pendingInput
  /\ submitQueue' = IF t = "submitListener" THEN 0 ELSE submitQueue
  /\ subscribed' = IF t = "fieldSync" THEN {} ELSE subscribed
  /\ mailbox' = IF t = "fieldSync" THEN [f \in Fields |-> <<>>] ELSE mailbox
  /\ UNCHANGED <<coreVars, formatVars, heapVars, scope, domValue, version,
                 delivered, dom>>

\* interruption of the submit fiber while a submit is in flight: the effect
\* it is running or about to run is abandoned and the pipeline exits with
\* the interruption; the finalizer is still to run
interruptSubmitting ==
  /\ TurnOf("submitListener")
  /\ pc[1] \notin {"ready", "settled"}
  /\ task' = [task EXCEPT !["submitListener"] = "interrupted"]
  /\ IF pc[1] = "ensuring"
     THEN UNCHANGED <<pc, exit, handlerExit>>
     ELSE /\ exit' = [exit EXCEPT ![1] = Interrupt]
          /\ handlerExit' = [handlerExit EXCEPT ![1] =
                               IF pc[1] = "onSubmit" THEN Some(Interrupt) ELSE @]
          /\ pc' = [pc EXCEPT ![1] = "ensuring"]
  /\ UNCHANGED <<state, effect, onSubmitArg, guardRaw, formatVars, heapVars,
                 scope, listeners, subscribed, domValue, pendingInput,
                 submitQueue, mailbox, version, delivered, dom>>

\* every finalizer has run: the close returns
closeReturns ==
  /\ scope = "closing"
  /\ \A t \in Owned : task[t] = "done"
  /\ scope' = "closed"
  /\ UNCHANGED <<coreVars, formatVars, heapVars, task, listeners, subscribed,
                 domValue, pendingInput, submitQueue, mailbox, version,
                 delivered, dom>>

BindNext ==
  \/ \E name \in Fields, value \in RawInputs :
       dispatchInput(name, value) /\ UNCHANGED <<eventVars, serviceVars>>
  \/ debounceElapsed /\ UNCHANGED <<eventVars, serviceVars>>
  \/ dispatchSubmit /\ UNCHANGED <<eventVars, serviceVars>>
  \/ handleSubmitEvent /\ UNCHANGED <<eventVars, serviceVars>>
  \/ bindSubmissionPipeline /\ UNCHANGED <<eventVars, serviceVars>>
  \/ bindUpdateErrors /\ UNCHANGED <<eventVars, serviceVars>>
  \/ bindOnSubmit /\ UNCHANGED <<eventVars, serviceVars>>
  \/ bindEnsuring /\ UNCHANGED <<eventVars, serviceVars>>
  \/ \E f \in Fields : tap(f) /\ UNCHANGED <<eventVars, serviceVars>>
  \/ closeScope /\ UNCHANGED <<eventVars, serviceVars>>
  \/ \E t \in Tasks : interruptIdle(t) /\ UNCHANGED <<eventVars, serviceVars>>
  \/ interruptSubmitting /\ UNCHANGED <<eventVars, serviceVars>>
  \/ closeReturns /\ UNCHANGED <<eventVars, serviceVars>>

BindSpec == BindInit /\ [][BindNext]_vars

(***************************************************************************)
(* The bound form with the history of its submit events.  The steps are    *)
(* those of BindNext; eventLog runs parallel to the submit events waiting  *)
(* in the stream and keeps, per event, what was true of the form when the  *)
(* handler of fromEvent emitted it.  The form is created with empty fields *)
(* or with every field filled in.                                          *)
(***************************************************************************)
\* the initialValues of a form bound with every field filled in
PrefilledInitialValues == [f \in Fields |-> "x"]

\* a submit event as the handler emits it: whether the handler of an earlier
\* submission is running at that moment, and the fields whose input element
\* holds a value that an earlier input event announced and that setRawValue
\* has not written, with that value
SubmitEvent ==
  [duringHandler |-> pc[1] = "onSubmit",
   unapplied |-> [f \in {g \in Fields : domValue[g] # state.rawValues[g]}
                    |-> domValue[f]]]

\* the event once setRawValue has run for the input element of field name
Applied(event, name) ==
  [event EXCEPT !.unapplied =
     [f \in DOMAIN event.unapplied \ {name} |-> event.unapplied[f]]]

EventInit ==
  /\ CoreInit
  /\ state \in {createForm(ExampleInitialValues),
                 createForm(PrefilledInitialValues)}
  /\ FormatIdle
  /\ HeapIdle
  /\ EventIdle
  /\ ServiceIdle
  /\ scope = "open"
  /\ task = [t \in Tasks |-> "running"]
  /\ listeners = {"submit", "input"}
  /\ subscribed = Fields
  /\ domValue = state.rawValues
  /\ pendingInput = None
  /\ submitQueue = 0
  /\ mailbox = [f \in Fields |->
                  <<[version |-> 0, fieldState |-> selectFieldState(state, f)]>>]
  /\ version = 0
  /\ delivered = [f \in Fields |-> <<>>]
  /\ dom = [f \in Fields |-> "unset"]

EventNext ==
  \/ \E name \in Fields, value \in RawInputs :
       dispatchInput(name, value) /\ UNCHANGED <<eventVars, serviceVars>>
  \/ /\ debounceElapsed
     /\ eventLog' = [i \in 1..Len(eventLog) |->
                       Applied(eventLog[i], pendingInput.value)]
     /\ UNCHANGED <<handled, serviceVars>>
  \/ /\ dispatchSubmit
     /\ eventLog' = Append(eventLog, SubmitEvent)
     /\ UNCHANGED <<handled, serviceVars>>
  \/ /\ handleSubmitEvent
     /\ handled' = Some(Head(eventLog))
     /\ eventLog' = Tail(eventLog)
     /\ UNCHANGED serviceVars
  \/ bindSubmissionPipeline /\ UNCHANGED <<eventVars, serviceVars>>
  \/ bindUpdateErrors /\ handled' = None /\ UNCHANGED <<eventLog, serviceVars>>
  \/ bindOnSubmit /\ handled' = None /\ UNCHANGED <<eventLog, serviceVars>>
  \/ /\ bindEnsuring
     /\ handled' = None
     /\ eventLog' = IF submitQueue' = 0 THEN <<>> ELSE eventLog
     /\ UNCHANGED serviceVars
  \/ \E f \in Fields : tap(f) /\ UNCHANGED <<eventVars, serviceVars>>
  \/ closeScope /\ UNCHANGED <<eventVars, serviceVars>>
  \/ \E t \in Tasks :
       /\ interruptIdle(t)
       /\ eventLog' = IF submitQueue' = 0 THEN <<>> ELSE eventLog
       /\ UNCHANGED <<handled, serviceVars>>
  \/ interruptSubmitting /\ UNCHANGED <<eventVars, serviceVars>>
  \/ closeReturns /\ UNCHANGED <<eventVars, serviceVars>>

EventSpec == EventInit /\ [][EventNext]_vars

(***************************************************************************)
(* The FormService form (forms/src/services/form-service.ts).  Its state   *)
(* is a SubscriptionRef; every operation is an Effect.gen whose yield* of  *)
(* an effect on stateRef is one step, and the steps of calls made by       *)
(* different fibers interleave.  In ServiceSpec one fiber calls submit,    *)
(* another calls setValues, and reset is a single step of any caller.  A call's locals   *)
(* are dropped when it returns.  touch and untouch, which write touched    *)
(* only, and the operations that only read stateRef are not part of it.    *)
(***************************************************************************)
\* the Partial<T> arguments drawn for setValues
Partials == UNION {[S -> RawInputs] : S \in SUBSET Fields \ {{}}}

\* { ...values, ...partial }
Spread(values, partial) ==
  [f \in Fields |-> IF f \in DOMAIN partial THEN partial[f] ELSE values[f]]

\* Equal.equals on two plain objects, neither implementing Equal: they are
\* equal when they are the same object
EqualEquals(sameObject) == sameObject

FieldValidationError(name) ==
  [_tag |-> "FieldValidationError", name |-> name, code |-> "SCHEMA_VALIDATION"]

\* validate, the loop over config.validations: the entries of the fields
\* whose value the schema rejects, in the order of the record
ErrorEntries(values) ==
  SelectSeq([i \in 1..Len(FieldOrder) |->
               <<FieldOrder[i], <<FieldValidationError(FieldOrder[i])>>>>],
            LAMBDA e : NonEmptyStringFails(values[e[1]]))

ServiceInit ==
  /\ CoreInit
  /\ state = createForm(ExampleInitialValues)
  /\ FormatIdle
  /\ HeapIdle
  /\ BindIdle
  /\ EventIdle
  /\ config \in ServiceConfigs
  /\ stateRef = ServiceInitialState(ExampleInitialValues)
  /\ ServiceQuiet

\* setValues, first step: read the state and build newValues
setValues_get(p, values) ==
  /\ servicePc[p] = "idle"
  /\ newValues' = [newValues EXCEPT ![p] = Some(Spread(stateRef.values, values))]
  /\ servicePc' = [servicePc EXCEPT ![p] = "update"]
  /\ UNCHANGED <<stateRef, config, valuesToValidate, validateExit,
                 onSubmitValues, submitResult, submission, valuesAtSubmit>>

\* setValues, second step: the update of stateRef; newValues is a new object,
\* never the object initialValues
setValues_update(p) ==
  /\ servicePc[p] = "update"
  /\ stateRef.validationCount < MaxCount
  /\ stateRef' = [stateRef EXCEPT
                    !.values = newValues[p].value,
                    !.isDirty = ~EqualEquals(FALSE),
                    !.validationCount = @ + 1]
  /\ IF config.validateOnChange
     THEN /\ servicePc' = [servicePc EXCEPT ![p] = "validate"]
          /\ UNCHANGED newValues
     ELSE /\ servicePc' = [servicePc EXCEPT ![p] = "idle"]
          /\ newValues' = [newValues EXCEPT ![p] = None]
  /\ UNCHANGED <<config, valuesToValidate, validateExit, onSubmitValues,
                 submitResult, submission, valuesAtSubmit>>

\* the argument of the validate call a fiber makes: setValues passes
\* newValues, submit passes nothing
ValidateArgument(p) == IF p \in SetValuesFibers THEN newValues[p] ELSE None

\* validate, first step: read the state and choose valuesToValidate
validate_get(p) ==
  /\ servicePc[p] = "validate"
  /\ valuesToValidate' = [valuesToValidate EXCEPT ![p] =
       Some(IF isSome(ValidateArgument(p))
            THEN Spread(stateRef.values, ValidateArgument(p).value)
            ELSE stateRef.values)]
  /\ servicePc' = [servicePc EXCEPT ![p] = "isValidating"]
  /\ UNCHANGED <<stateRef, config, newValues, validateExit,
                 onSubmitValues, submitResult, submission, valuesAtSubmit>>

\* validate, second step: isValidating is set
validate_mark(p) ==
  /\ servicePc[p] = "isValidating"
  /\ stateRef' = [stateRef EXCEPT !.isValidating = TRUE]
  /\ servicePc' = [servicePc EXCEPT ![p] = "decode"]
  /\ UNCHANGED <<config, newValues, valuesToValidate, validateExit,
                 onSubmitValues, submitResult, submission, valuesAtSubmit>>

\* validate, the rest: without validations the values are accepted; with
\* them every field is decoded, the errors are writtenBy and the call fails
\* with the first one or returns valuesToValidate
validate_commit(p) ==
  /\ servicePc[p] = "decode"
  /\ stateRef.validationCount < MaxCount
  /\ LET values == valuesToValidate[p].value
         errorEntries == IF config.validations THEN ErrorEntries(values)
                         ELSE <<>>
         hasErrors == errorEntries # <<>>
     IN /\ stateRef' = [stateRef EXCEPT
                          !.isValidating = FALSE,
                          !.isValid = ~hasErrors,
                          !.errors = [f \in {errorEntries[i][1] :
                                               i \in 1..Len(errorEntries)} |->
                                        <<FieldValidationError(f)>>],
                          !.validationCount = @ + 1]
        /\ validateExit' = [validateExit EXCEPT ![p] =
                                  Some(IF hasErrors
                                       THEN Left(errorEntries[1][2][1])
                                       ELSE Right(values))]
  /\ servicePc' = [servicePc EXCEPT ![p] = "validated"]
  /\ UNCHANGED <<config, newValues, valuesToValidate, onSubmitValues,
                 submitResult, submission, valuesAtSubmit>>

\* setValues, validateOnChange: the outcome of validate is dropped
setValues_return(p) ==
  /\ servicePc[p] = "validated"
  /\ servicePc' = [servicePc EXCEPT ![p] = "idle"]
  /\ newValues' = [newValues EXCEPT ![p] = None]
  /\ valuesToValidate' = [valuesToValidate EXCEPT ![p] = None]
  /\ validateExit' = [validateExit EXCEPT ![p] = None]
  /\ UNCHANGED <<stateRef, config, onSubmitValues, submitResult, submission,
                 valuesAtSubmit>>

\* submit, first step: isSubmitting is set
submit_begin ==
  /\ servicePc["submit"] = "idle"
  /\ stateRef.submitCount < MaxCount
  /\ stateRef' = [stateRef EXCEPT !.isSubmitting = TRUE]
  /\ valuesAtSubmit' =
       Some([values |-> stateRef.values,
             setValuesIdle |-> servicePc["setValues"] = "idle"])
  /\ servicePc' = [servicePc EXCEPT !["submit"] = "validate"]
  /\ submission' = None
  /\ UNCHANGED <<config, newValues, valuesToValidate, validateExit,
                 onSubmitValues, submitResult>>

\* submit, validation failed: the flag is reset, the attempt is counted and
\* the failure is returned
submit_invalid ==
  /\ servicePc["submit"] = "validated"
  /\ isLeft(validateExit["submit"].value)
  /\ stateRef' = [stateRef EXCEPT !.isSubmitting = FALSE,
                                  !.submitCount = @ + 1]
  /\ submission' = Some([success |-> FALSE, errors |-> "form"])
  /\ servicePc' = [servicePc EXCEPT !["submit"] = "idle"]
  /\ valuesToValidate' = [valuesToValidate EXCEPT !["submit"] = None]
  /\ validateExit' = [validateExit EXCEPT !["submit"] = None]
  /\ onSubmitValues' = None
  /\ submitResult' = None
  /\ valuesAtSubmit' = None
  /\ UNCHANGED <<config, newValues>>

\* submit, validation passed: onSubmit is invoked with what validate returned
submit_onSubmit ==
  /\ servicePc["submit"] = "validated"
  /\ isRight(validateExit["submit"].value)
  /\ onSubmitValues' = Some(validateExit["submit"].value.right)
  /\ servicePc' = [servicePc EXCEPT !["submit"] = "onSubmit"]
  /\ UNCHANGED <<stateRef, config, newValues, valuesToValidate,
                 validateExit, submitResult, submission, valuesAtSubmit>>

\* the handler ends, with a value or with a FieldValidationError
onSubmit_ends ==
  /\ servicePc["submit"] = "onSubmit"
  /\ \E r \in {Right("data"), Left(FieldValidationError("submit"))} :
       submitResult' = Some(r)
  /\ servicePc' = [servicePc EXCEPT !["submit"] = "finish"]
  /\ UNCHANGED <<stateRef, config, newValues, valuesToValidate,
                 validateExit, onSubmitValues, submission, valuesAtSubmit>>

\* submit, after the handler: the flag is reset and the attempt is counted;
\* a failure of the handler is returned, else reset follows if configured
submit_finish ==
  /\ servicePc["submit"] = "finish"
  /\ stateRef' = [stateRef EXCEPT !.isSubmitting = FALSE,
                                  !.submitCount = @ + 1]
  /\ IF isLeft(submitResult.value)
     THEN /\ submission' = Some([success |-> FALSE, errors |-> "submit"])
          /\ servicePc' = [servicePc EXCEPT !["submit"] = "idle"]
     ELSE IF config.resetOnSubmit
     THEN /\ UNCHANGED submission
          /\ servicePc' = [servicePc EXCEPT !["submit"] = "reset"]
     ELSE /\ submission' = Some([success |-> TRUE, data |-> "data"])
          /\ servicePc' = [servicePc EXCEPT !["submit"] = "idle"]
  /\ valuesToValidate' = [valuesToValidate EXCEPT !["submit"] = None]
  /\ validateExit' = [validateExit EXCEPT !["submit"] = None]
  /\ onSubmitValues' = None
  /\ submitResult' = None
  /\ valuesAtSubmit' = None
  /\ UNCHANGED <<config, newValues>>

\* submit, resetOnSubmit: reset() and the successful result
submit_reset ==
  /\ servicePc["submit"] = "reset"
  /\ stateRef' = ServiceInitialState(stateRef.initialValues)
  /\ submission' = Some([success |-> TRUE, data |-> "data"])
  /\ servicePc' = [servicePc EXCEPT !["submit"] = "idle"]
  /\ UNCHANGED <<config, newValues, valuesToValidate, validateExit,
                 onSubmitValues, submitResult, valuesAtSubmit>>

\* the fiber running submit is interrupted: nothing more of the call runs
submit_interrupted ==
  /\ servicePc["submit"] \notin {"idle", "interrupted"}
  /\ servicePc' = [servicePc EXCEPT !["submit"] = "interrupted"]
  /\ UNCHANGED <<stateRef, config, newValues, valuesToValidate,
                 validateExit, onSubmitValues, submitResult, submission,
                 valuesAtSubmit>>

\* reset, called by the user of the form
reset ==
  /\ stateRef # ServiceInitialState(stateRef.initialValues)
  /\ stateRef' = ServiceInitialState(stateRef.initialValues)
  /\ UNCHANGED <<config, servicePc, newValues, valuesToValidate,
                 validateExit, onSubmitValues, submitResult, submission,
                 valuesAtSubmit>>

otherVars == <<coreVars, formatVars, heapVars, bindVars, eventVars>>

\* the two fibers of the form under submission: the one that calls submit
\* and one that calls setValues
SubmitAndSet == {"submit", "setValues"}

historyVars == <<writtenBy, attempts>>

ServiceNext ==
  \/ \E values \in Partials :
       setValues_get("setValues", values) /\ UNCHANGED <<otherVars, historyVars>>
  \/ setValues_update("setValues") /\ UNCHANGED <<otherVars, historyVars>>
  \/ \E p \in SubmitAndSet :
       validate_get(p) /\ UNCHANGED <<otherVars, historyVars>>
  \/ \E p \in SubmitAndSet :
       validate_mark(p) /\ UNCHANGED <<otherVars, historyVars>>
  \/ \E p \in SubmitAndSet :
       validate_commit(p) /\ UNCHANGED <<otherVars, historyVars>>
  \/ setValues_return("setValues") /\ UNCHANGED <<otherVars, historyVars>>
  \/ submit_begin /\ attempts < MaxCount /\ UNCHANGED <<otherVars, historyVars>>
  \/ submit_invalid /\ attempts' = attempts + 1 /\ UNCHANGED <<otherVars, writtenBy>>
  \/ submit_onSubmit /\ UNCHANGED <<otherVars, historyVars>>
  \/ onSubmit_ends /\ UNCHANGED <<otherVars, historyVars>>
  \/ /\ submit_finish
     /\ attempts' = IF servicePc'["submit"] = "idle" THEN attempts + 1
                    ELSE attempts
     /\ UNCHANGED <<otherVars, writtenBy>>
  \/ submit_reset /\ attempts' = attempts + 1 /\ UNCHANGED <<otherVars, writtenBy>>
  \/ submit_interrupted /\ UNCHANGED <<otherVars, historyVars>>
  \/ reset /\ attempts' = 0 /\ UNCHANGED <<otherVars, writtenBy>>

ServiceSpec == ServiceInit /\ [][ServiceNext]_vars

(***************************************************************************)
(* Two fibers that each call setValues once on the same FormService form,  *)
(* their steps interleaving; writtenBy keeps the argument of each call.      *)
(***************************************************************************)
SetValuesNext ==
  \/ \E p \in SetValuesFibers, values \in Partials :
       /\ isNone(writtenBy[p])
       /\ setValues_get(p, values)
       /\ writtenBy' = [writtenBy EXCEPT ![p] = Some(values)]
       /\ UNCHANGED <<otherVars, attempts>>
  \/ \E p \in SetValuesFibers :
       setValues_update(p) /\ UNCHANGED <<otherVars, historyVars>>
  \/ \E p \in SetValuesFibers :
       validate_get(p) /\ UNCHANGED <<otherVars, historyVars>>
  \/ \E p \in SetValuesFibers :
       validate_mark(p) /\ UNCHANGED <<otherVars, historyVars>>
  \/ \E p \in SetValuesFibers :
       validate_commit(p) /\ UNCHANGED <<otherVars, historyVars>>
  \/ \E p \in SetValuesFibers :
       setValues_return(p) /\ UNCHANGED <<otherVars, historyVars>>

SetValuesSpec == ServiceInit /\ [][SetValuesNext]_vars

(***************************************************************************)
(* Vocabulary of the properties.                                           *)
(***************************************************************************)
\* the call's guard found isSubmitting false and set it
WonGuard(c) == effect[c]._tag = "Success"

\* the call's guard found isSubmitting true
Rejected(c) == effect[c]._tag = "Failure"

\* the call won the guard and its finalizer has not run yet
InFlight(c) == WonGuard(c) /\ pc[c] # "settled"

\* the call takes a step of its pipeline
Steps(c) == pc'[c] # pc[c]

\* the fields of a raw record that the schema rejects
InvalidFields(raw) == {k \in Fields : NonEmptyStringFails(raw[k])}

\* the paths a ParseError has an issue for
IssuePaths(error) == {error.issues[i].path : i \in 1..Len(error.issues)}

(***************************************************************************)
(* C1: a submit call that finds isSubmitting true fails with               *)
(* FormAlreadySubmittingError and none of its steps, up to and including   *)
(* what it runs on exit, changes the FormState.                            *)
(***************************************************************************)
C1_RejectedSubmitChangesNothing ==
  [][\A c \in Calls :
       /\ (Free(c) /\ Steps(c) /\ state.isSubmitting)
            => effect'[c] = Failure(FormAlreadySubmittingError)
       /\ (Steps(c) /\ effect'[c]._tag = "Failure") => state' = state
       /\ (pc'[c] = "settled" /\ Rejected(c))
            => exit'[c] = Failure(FormAlreadySubmittingError)]_vars

(***************************************************************************)
(* C2: while a submit call that won the guard has not yet run its cleanup, *)
(* isSubmitting is true.                                                   *)
(***************************************************************************)
C2_SubmittingWhileInFlight ==
  \A c \in Calls : InFlight(c) => state.isSubmitting

(***************************************************************************)
(* C3: at most one submit call is past the guard and not yet completed, so *)
(* no two onSubmit handlers run at the same time.                          *)
(***************************************************************************)
C3_SingleFlight ==
  /\ Cardinality({c \in Calls : InFlight(c)}) <= 1
  /\ Cardinality({c \in Calls : pc[c] = "onSubmit"}) <= 1

(***************************************************************************)
(* C4: every submit call that won the guard and whose pipeline has exited  *)
(* (validation stored its failure, or the handler ended with a value, a    *)
(* failure or by interruption) eventually runs its cleanup, and the        *)
(* cleanup step sets isSubmitting = false and hasSubmitted = true.  The    *)
(* call awaits cleanup in a window that it leaves only by the cleanup      *)
(* step, and every such window ends.                                       *)
(***************************************************************************)
AwaitsCleanup(c) == WonGuard(c) /\ pc[c] \in {"updateErrors", "ensuring"}

C4_CleanupOnEveryExit ==
  /\ \A c \in Calls : []<>(~AwaitsCleanup(c))
  /\ [][\A c \in Calls :
          (AwaitsCleanup(c) /\ ~AwaitsCleanup(c)')
            => /\ pc[c] = "ensuring" /\ pc'[c] = "settled"
               /\ ~state'.isSubmitting
               /\ state'.hasSubmitted = "true"]_vars

\* a winning call whose handler was interrupted has run its cleanup
C4_Witness ==
  \E c \in Calls :
    /\ WonGuard(c) /\ pc[c] = "settled" /\ exit[c] = Interrupt
    /\ ~state.isSubmitting /\ state.hasSubmitted = "true"

(***************************************************************************)
(* C5: what a submission validates and hands to onSubmit is decided by the *)
(* rawValues held in the state at its guard step, whatever setRawValue     *)
(* calls are applied afterwards.                                           *)
(***************************************************************************)
C5_SnapshotIsolation ==
  \A c \in Calls :
    (WonGuard(c) /\ pc[c] # "flatten") =>
      LET captured == guardRaw[c].value IN
      IF InvalidFields(captured) = {}
        THEN /\ pc[c] # "updateErrors"
             /\ onSubmitArg[c] = Some(captured)
        ELSE /\ pc[c] # "onSubmit"
             /\ onSubmitArg[c] = None
             /\ pc[c] \in {"ensuring", "settled"} =>
                  /\ exit[c]._tag = "Failure"
                  /\ exit[c].error._tag = "ParseError"
                  /\ IssuePaths(exit[c].error)
                       = {<<k>> : k \in InvalidFields(captured)}

\* the handler runs on the captured record after setRawValue has replaced it
C5_Witness ==
  \E c \in Calls :
    /\ pc[c] = "onSubmit"
    /\ isSome(onSubmitArg[c])
    /\ InvalidFields(state.rawValues) # {}

(***************************************************************************)
(* C6: as long as only createForm and setRawValue (and touch) have run,    *)
(* validatedValues is present exactly when the current rawValues decode    *)
(* and then is their decoded value, errors is present exactly when they do *)
(* not, and the stored issues are issues of the current rawValues.         *)
(***************************************************************************)
NoSubmitYet == \A c \in Calls : pc[c] = "ready"

C6_ValidationMatchesRawValues ==
  NoSubmitYet =>
    LET invalid == InvalidFields(state.rawValues) IN
    /\ isSome(state.validatedValues) <=> (invalid = {})
    /\ isSome(state.errors) <=> (invalid # {})
    /\ isSome(state.validatedValues)
         => state.validatedValues.value = state.rawValues
    /\ isSome(state.errors)
         => /\ state.errors.value.issues # <<>>
            /\ IssuePaths(state.errors.value)
                 \subseteq {<<k>> : k \in invalid}

\* a state only setRawValue produces: two issues stored, no submit so far
C6_Witness ==
  /\ NoSubmitYet
  /\ isSome(state.errors)
  /\ Len(state.errors.value.issues) = 2

(***************************************************************************)
(* C7: in every reachable FormState exactly one of validatedValues and     *)
(* errors is present.                                                      *)
(***************************************************************************)
C7_ExactlyOneOfValidatedAndErrors ==
  isSome(state.validatedValues) # isSome(state.errors)

(***************************************************************************)
(* C8: every stored or returned error tree has an issue for each invalid   *)
(* field of the record that was decoded, so formatErrors yields an entry   *)
(* with at least one message for each of them.                             *)
(***************************************************************************)
CoversEveryInvalidField(error, raw) ==
  \A k \in InvalidFields(raw) :
    /\ StringKey(k) \in DOMAIN formatErrors(error)
    /\ Len(formatErrors(error)[StringKey(k)]) >= 1

C8_AllErrorsMode ==
  /\ (NoSubmitYet /\ isSome(state.errors))
       => CoversEveryInvalidField(state.errors.value, state.rawValues)
  /\ \A c \in Calls :
       (WonGuard(c) /\ exit[c]._tag = "Failure"
          /\ exit[c].error._tag = "ParseError")
         => CoversEveryInvalidField(exit[c].error, guardRaw[c].value)

(***************************************************************************)
(* C9: when the rawValues captured at the guard do not decode, onSubmit is *)
(* not invoked for that call, the call fails with a ParseError that has an *)
(* issue for exactly the invalid fields of the captured record, and the    *)
(* step that stores the failure puts that same ParseError into errors and  *)
(* sets hasSubmitted = true.                                               *)
(***************************************************************************)
C9_ValidationFailure ==
  /\ [](\A c \in Calls :
          (WonGuard(c) /\ pc[c] # "flatten"
           /\ InvalidFields(guardRaw[c].value) # {})
            => /\ onSubmitArg[c] = None
               /\ handlerExit[c] = None
               /\ pc[c] \in {"ensuring", "settled"} =>
                    /\ exit[c]._tag = "Failure"
                    /\ exit[c].error._tag = "ParseError"
                    /\ IssuePaths(exit[c].error)
                         = {<<k>> : k \in InvalidFields(guardRaw[c].value)})
  /\ [][\A c \in Calls :
          (pc[c] = "updateErrors" /\ pc'[c] = "ensuring")
            => /\ state'.errors = Some(exit'[c].error)
               /\ state'.hasSubmitted = "true"]_vars

\* a call has failed with the issues of both fields and never ran the handler
C9_Witness ==
  \E c \in Calls :
    /\ WonGuard(c) /\ pc[c] = "settled"
    /\ exit[c]._tag = "Failure"
    /\ exit[c].error._tag = "ParseError"
    /\ Len(exit[c].error.issues) = 2
    /\ onSubmitArg[c] = None
    /\ state.hasSubmitted = "true"

(***************************************************************************)
(* C10: when the captured rawValues decode, onSubmit is invoked with the   *)
(* decoded value, the call ends with exactly what the handler ended with   *)
(* (its value or its error), and the cleanup step of such a call leaves    *)
(* isSubmitting = false and hasSubmitted = true.                           *)
(***************************************************************************)
C10_HandlerOutcomePropagates ==
  /\ [](\A c \in Calls :
          (WonGuard(c) /\ pc[c] # "flatten"
           /\ InvalidFields(guardRaw[c].value) = {})
            => /\ onSubmitArg[c] = Some(guardRaw[c].value)
               /\ pc[c] \in {"ensuring", "settled"} =>
                    /\ isSome(handlerExit[c])
                    /\ exit[c] = handlerExit[c].value)
  /\ [][\A c \in Calls :
          (isSome(handlerExit[c])
           /\ handlerExit[c].value._tag \in {"Success", "Failure"}
           /\ pc[c] = "ensuring" /\ pc'[c] = "settled")
            => /\ ~state'.isSubmitting
               /\ state'.hasSubmitted = "true"]_vars

\* a call has settled with the handler's own failure
C10_Witness ==
  \E c \in Calls :
    /\ pc[c] = "settled"
    /\ handlerExit[c] = Some(Failure(HandlerError))
    /\ exit[c] = Failure(HandlerError)
    /\ ~state.isSubmitting /\ state.hasSubmitted = "true"

(***************************************************************************)
(* C11: hasSubmitted is false in the state created by createForm and until *)
(* a submit attempt completes; it turns true only by a step that completes *)
(* a submit attempt (the validation-failure update or the finalizer), and  *)
(* once true it stays true.                                                *)
(***************************************************************************)
\* a step by which some submit call stores its failure or runs its finalizer
CompletesAttempt ==
  \E c \in Calls : pc[c] \in {"updateErrors", "ensuring"} /\ Steps(c)

C11_HasSubmittedLifecycle ==
  /\ state.hasSubmitted = "false"
  /\ [](state.hasSubmitted \in {"false", "true"})
  /\ [][(state.hasSubmitted # "true" /\ state'.hasSubmitted = "true")
          => CompletesAttempt]_vars
  /\ [][state.hasSubmitted = "true" => state'.hasSubmitted = "true"]_vars

(***************************************************************************)
(* C13: touched grows monotonically: whatever step is taken (setRawValue,  *)
(* touch, or any step of any submit call), every key that is in touched    *)
(* before the step is in touched after it.                                 *)
(***************************************************************************)
C13_TouchedGrowsMonotonically ==
  [][state.touched \subseteq state'.touched]_vars

\* every field is touched, the raw values were edited and a submit call has
\* run to its end
C13_Witness ==
  /\ state.touched = Fields
  /\ \E c \in Calls : pc[c] = "settled" /\ WonGuard(c)
  /\ isSome(state.errors)

(***************************************************************************)
(* C14: touch is idempotent: in every reachable state and for every key k, *)
(* touch(k) applied twice gives the same snapshot (the same touched set    *)
(* and the same values of all other fields) as touch(k) applied once.      *)
(***************************************************************************)
C14_TouchIdempotent ==
  \A k \in Fields :
    LET once  == TouchTransform(state, k)
        twice == TouchTransform(once, k)
    IN  /\ twice.touched = once.touched
        /\ twice = once

\* one key is touched and the other is not: both the first touch and the
\* repeated touch are exercised from this state
C14_Witness ==
  /\ state.touched # {}
  /\ state.touched # Fields

(***************************************************************************)
(* C15: in every reachable state the FieldState that selectFieldState      *)
(* yields for a key k is the projection of the current snapshot: rawValue  *)
(* is rawValues[k]; value is present iff validatedValues is, and is then   *)
(* validatedValues[k]; errors is the list of the messages of the stored    *)
(* issues of k, empty when errors is absent or holds no issue of k;        *)
(* touched is (k in touched); hasSubmitted is the snapshot's hasSubmitted. *)
(***************************************************************************)
\* the messages of the issues of an error whose path is the single key k
RECURSIVE MessagesOf(_, _)
MessagesOf(issues, k) ==
  IF issues = <<>> THEN <<>>
  ELSE (IF Head(issues).path = <<k>> THEN <<Head(issues).message>> ELSE <<>>)
       \o MessagesOf(Tail(issues), k)

C15_FieldStateIsProjection ==
  \A k \in Fields :
    LET f == selectFieldState(state, k) IN
    /\ f.rawValue = state.rawValues[k]
    /\ isSome(f.value) <=> isSome(state.validatedValues)
    /\ isSome(f.value) => f.value.value = state.validatedValues.value[k]
    /\ f.errors = IF isSome(state.errors)
                  THEN MessagesOf(state.errors.value.issues, k)
                  ELSE <<>>
    /\ f.touched = (k \in state.touched)
    /\ f.hasSubmitted = state.hasSubmitted

\* a snapshot where one field has a message and is touched, the other has
\* neither, and hasSubmitted has been set
C15_Witness ==
  /\ state.hasSubmitted = "true"
  /\ \E k \in Fields :
       /\ selectFieldState(state, k).errors # <<>>
       /\ selectFieldState(state, k).touched
       /\ \E j \in Fields \ {k} :
            /\ selectFieldState(state, j).errors = <<>>
            /\ ~selectFieldState(state, j).touched

(***************************************************************************)
(* C12: the transforms of setRawValue, touch, the submit guard and the     *)
(* submit cleanup are read-modify-writes of the current snapshot: every    *)
(* step of one of them changes only the fields that transform writes and   *)
(* leaves every other field at the value the latest snapshot held, so      *)
(* that in any interleaving no update of another action is lost or         *)
(* overwritten.  (The state of a run is by construction the result of      *)
(* applying the transforms one after the other.)                           *)
(***************************************************************************)
\* the fields of the snapshot a step changes
ChangedFields ==
  {f \in DOMAIN state : state'[f] # state[f]}

GuardStep == \E c \in Calls : Free(c) /\ pc'[c] = "flatten"

CleanupStep == \E c \in Calls : pc[c] = "ensuring" /\ Steps(c)

\* a step of setRawValue or touch: no submit call moves
FieldStep == pc' = pc

RECURSIVE MessagesAt(_, _, _)
MessagesAt(issues, idx, i) ==
  IF i > Len(issues) THEN <<>>
  ELSE (IF i \in idx THEN <<issues[i].message>> ELSE <<>>)
       \o MessagesAt(issues, idx, i + 1)

\* the total number of messages a formatted map holds under the given keys
RECURSIVE CountMessages(_, _)
CountMessages(map, keys) ==
  IF keys = {} THEN 0
  ELSE LET key == CHOOSE k \in keys : TRUE
       IN Len(map[key]) + CountMessages(map, keys \ {key})

Formatted == isSome(formatResult)

(***************************************************************************)
(* C16: formatErrors groups the issues by path and loses none: the keys of *)
(* the result are the path keys of the issues, the list under a key is the *)
(* list of the messages of the issues with that path key in issue order    *)
(* (one occurrence per issue, none overwritten), and the lists together    *)
(* hold as many messages as there are issues.                              *)
(***************************************************************************)
C16_FormatErrorsLosesNoIssue ==
  Formatted =>
    LET issues == formatInput.value.issues
        errorMap == formatResult.value
    IN  /\ DOMAIN errorMap = {PathKey(issues[i]) : i \in 1..Len(issues)}
        /\ \A i \in 1..Len(issues) :
             LET samePath == {j \in 1..Len(issues) :
                                issues[j].path = issues[i].path}
                 sameKey == {j \in 1..Len(issues) :
                               PathKey(issues[j]) = PathKey(issues[i])}
             IN /\ samePath \subseteq sameKey
                /\ errorMap[PathKey(issues[i])] = MessagesAt(issues, sameKey, 1)
        /\ CountMessages(errorMap, DOMAIN errorMap) = Len(issues)

\* an error with three issues, two of them for the same path and not
\* adjacent, has been formatted
C16_Witness ==
  /\ Formatted
  /\ LET issues == formatInput.value.issues IN
       /\ Len(issues) = 3
       /\ issues[1].path = issues[3].path
       /\ issues[1].path # issues[2].path
       /\ issues[1].message # issues[3].message
       /\ Len(formatResult.value[PathKey(issues[1])]) = 2

(***************************************************************************)
(* C17: the messages of the issues with an empty path are stored under     *)
(* GlobalErrorKey and under no other key, no message of an issue with a    *)
(* non-empty path is stored under GlobalErrorKey, and the errors list that *)
(* selectFieldState yields for a field holds the messages of the issues of *)
(* that field only, so never a form-level message.                         *)
(***************************************************************************)
C17_FormLevelErrorsUnderSentinelOnly ==
  LET issues == formatInput.value.issues
      formLevel == {i \in 1..Len(issues) : issues[i].path = <<>>}
  IN  /\ Formatted =>
           LET errorMap == formatResult.value IN
           /\ MapGet(errorMap, GlobalErrorKey) = MessagesAt(issues, formLevel, 1)
           /\ \A key \in DOMAIN errorMap \ {GlobalErrorKey} :
                /\ key[1] = "string"
                /\ errorMap[key] =
                     MessagesAt(issues,
                                {i \in 1..Len(issues) \ formLevel :
                                   PathKey(issues[i]) = key}, 1)
      /\ isSome(fieldResult) =>
           LET key == fieldResult.value.key IN
           fieldResult.value.fieldState.errors =
             MessagesAt(issues,
                        {i \in 1..Len(issues) : issues[i].path = <<key>>}, 1)

\* an error with a form-level issue, an issue of a field and an issue of the
\* property named like the sentinel has been formatted, and the field's
\* FieldState has been selected
C17_Witness ==
  /\ Formatted
  /\ isSome(fieldResult)
  /\ LET issues == formatInput.value.issues
         key == fieldResult.value.key
     IN /\ \E i \in 1..Len(issues) : issues[i].path = <<>>
        /\ \E i \in 1..Len(issues) : issues[i].path = <<key>>
        /\ \E i \in 1..Len(issues) :
             issues[i].path = <<"@flowline/forms/GlobalErrorKey">>
        /\ Len(fieldResult.value.fieldState.errors) = 1
        /\ Len(formatResult.value[GlobalErrorKey]) = 1

(***************************************************************************)
(* C20: FormState snapshots are never mutated in place: no step changes    *)
(* the contents of an object that exists, every step that sets the atom to *)
(* a different snapshot sets it to a newly allocated object, and a reader  *)
(* that holds a reference to an earlier snapshot finds in it (rawValues    *)
(* record, touched set, flags) what it saw when it took the reference.     *)
(***************************************************************************)
C20_SnapshotsNeverMutated ==
  /\ [][\A a \in 1..Len(heap) : Len(heap') >= a /\ heap'[a] = heap[a]]_vars
  /\ [][/\ root' # root => root' > Len(heap)
        /\ state' # state => root' # root]_vars
  /\ [](isSome(held) => Deref(held.value.snapshot) = held.value.contents)

\* a reader holds a snapshot that is no longer the current one, and the
\* current one differs from it in rawValues, in touched and in the flags
C20_Witness ==
  /\ isSome(held)
  /\ held.value.snapshot # root
  /\ Deref(root).rawValues # held.value.contents.rawValues
  /\ Deref(root).touched # held.value.contents.touched
  /\ Deref(root).isSubmitting # held.value.contents.isSubmitting
  /\ heap[root].touched # heap[held.value.snapshot].touched

(***************************************************************************)
(* C18: every observer of a bound form's state receives the successive     *)
(* snapshots in the order in which they were installed, none reordered,    *)
(* coalesced or skipped: for every subscribed field, the versions its tap  *)
(* has been run with, followed by the versions still queued for it, are    *)
(* 0, 1, ..., version; every step that changes the state installs exactly  *)
(* one new version; and the value queued for a new version is the          *)
(* FieldState of the snapshot just installed.                              *)
(***************************************************************************)
\* the versions of the items of a queue, in queue order
VersionsOf(queue) == [i \in 1..Len(queue) |-> queue[i].version]

C19_ScopeCloseStopsBackgroundTasks ==
  /\ [](scope = "closed" =>
          /\ \A t \in Tasks : task[t] = "done"
          /\ listeners = {}
          /\ subscribed = {})
  /\ [][scope = "closed" =>
          /\ scope' = "closed"
          /\ coreVars' = coreVars
          /\ dom' = dom
          /\ version' = version
          /\ pendingInput' = pendingInput
          /\ submitQueue' = submitQueue]_vars

\* the scope was closed while a submit was in flight and an input event was
\* held by the debounce, and the user has edited an input since the close
C19_Witness ==
  /\ scope = "closed"
  /\ exit[1] = Interrupt
  /\ pc[1] = "settled"
  /\ ~state.isSubmitting
  /\ domValue # state.rawValues

(***************************************************************************)
(* C21: in a bound form, whenever the FieldState of a field has a          *)
(* non-empty errors list, the input element of the field has               *)
(* aria-invalid = "true", also before any submission.  Stated here for the *)
(* states, among those the claim speaks of, in which the stream of the     *)
(* field has taken every value it was offered, so that the attribute is    *)
(* not merely about to be writtenBy.                                         *)
(***************************************************************************)
C21_ErrorsImplyAriaInvalid ==
  \A f \in Fields :
    (/\ f \in subscribed
     /\ mailbox[f] = <<>>
     /\ selectFieldState(state, f).errors # <<>>)
      => dom[f] = "true"

(***************************************************************************)
(* C22: a setRawValue(key, value) step has no other effect than writing    *)
(* rawValues[key] and replacing validatedValues and errors: the raw values *)
(* of the other keys, touched, isSubmitting and hasSubmitted, and the      *)
(* progress of every submit call, are the same after the step as before,   *)
(* also while a submission is in flight.                                   *)
(***************************************************************************)
C22_SetRawValueFrame ==
  [][\A key \in Fields, value \in RawInputs :
       setRawValue(key, value) =>
         /\ state'.rawValues[key] = value
         /\ \A k \in Fields \ {key} : state'.rawValues[k] = state.rawValues[k]
         /\ state'.touched = state.touched
         /\ state'.isSubmitting = state.isSubmitting
         /\ state'.hasSubmitted = state.hasSubmitted
         /\ DOMAIN state' = DOMAIN state
         /\ <<pc, effect, onSubmitArg, exit, guardRaw, handlerExit>>'
              = <<pc, effect, onSubmitArg, exit, guardRaw, handlerExit>>]_vars

\* a field was edited while the handler of a submission was running: the
\* flags and touched are as the submission and an earlier touch left them
C22_Witness ==
  \E c \in Calls :
    /\ pc[c] = "onSubmit"
    /\ guardRaw[c].value # state.rawValues
    /\ state.isSubmitting
    /\ state.touched # {}
    /\ state.hasSubmitted = "undefined"

(***************************************************************************)
(* C23: for every submit call, onSubmit is invoked at most once, and only  *)
(* if the call won the guard and the rawValues it captured decode; a call  *)
(* rejected with FormAlreadySubmittingError runs neither the validation    *)
(* branch nor the handler and exits with that error.                       *)
(***************************************************************************)
C23_HandlerAtMostOnceAndOnlyIfValid ==
  /\ [](\A c \in Calls :
          /\ (pc[c] = "onSubmit" \/ isSome(onSubmitArg[c])
                \/ isSome(handlerExit[c]))
               => /\ WonGuard(c)
                  /\ isRight(DecodeEither(guardRaw[c].value, "all"))
          /\ Rejected(c) =>
               /\ pc[c] \in {"flatten", "ensuring", "settled"}
               /\ isNone(onSubmitArg[c])
               /\ isNone(handlerExit[c])
               /\ pc[c] # "flatten" => exit[c] = Failure(FormAlreadySubmittingError))
  /\ [][\A c \in Calls :
          /\ (pc'[c] = "onSubmit" /\ pc[c] # "onSubmit")
               => (pc[c] = "flatten" /\ isNone(onSubmitArg[c]))
          /\ (pc'[c] = "flatten" /\ pc[c] # "flatten") => Free(c)
          /\ (isSome(handlerExit[c]) /\ pc'[c] = "onSubmit") => FALSE]_vars

\* one call's handler has run and ended, and another call, made while the
\* first was in flight, was rejected and has settled
C23_Witness ==
  \E c, d \in Calls :
    /\ WonGuard(c)
    /\ isSome(handlerExit[c])
    /\ Rejected(d)
    /\ pc[d] = "settled"
    /\ pc[c] = "ensuring"

(***************************************************************************)
(* C24: a touch(key) step changes only touched: rawValues,                 *)
(* validatedValues, errors, isSubmitting and hasSubmitted are the same     *)
(* after the step as before (no validation is run again), and no submit    *)
(* call moves.                                                             *)
(***************************************************************************)
C24_TouchFrame ==
  [][\A key \in Fields :
       touch(key) =>
         /\ \A f \in DOMAIN state \ {"touched"} : state'[f] = state[f]
         /\ DOMAIN state' = DOMAIN state
         /\ <<pc, effect, onSubmitArg, exit, guardRaw, handlerExit>>'
              = <<pc, effect, onSubmitArg, exit, guardRaw, handlerExit>>]_vars

\* a field was touched in the state createForm made of two empty fields:
\* errors still holds the single issue of the initial decode
C24_Witness ==
  /\ state.touched # {}
  /\ InvalidFields(state.rawValues) = Fields
  /\ isSome(state.errors)
  /\ Len(state.errors.value.issues) = 1
  /\ NoSubmitYet

(***************************************************************************)
(* C25: no step of a submit call writes rawValues, validatedValues or      *)
(* touched; the only fields such a step changes are isSubmitting,          *)
(* hasSubmitted and, in the validation-failure update only, errors.  So    *)
(* what setRawValue and touch wrote while the call was in flight is in the *)
(* state when it has settled.                                              *)
(***************************************************************************)
C25_SubmitFrame ==
  [][\A c \in Calls :
       Steps(c) =>
         /\ state'.rawValues = state.rawValues
         /\ state'.validatedValues = state.validatedValues
         /\ state'.touched = state.touched
         /\ DOMAIN state' = DOMAIN state
         /\ state'.errors # state.errors => pc[c] = "updateErrors"]_vars

\* a call has settled with a validation failure; the edit and the touch made
\* while it was in flight are in the state
C25_Witness ==
  \E c \in Calls :
    /\ pc[c] = "settled"
    /\ WonGuard(c)
    /\ exit[c]._tag = "Failure"
    /\ exit[c].error._tag = "ParseError"
    /\ state.rawValues # guardRaw[c].value
    /\ state.touched = Fields
    /\ isSome(state.validatedValues)

(***************************************************************************)
(* C26: setRawValue calls on distinct keys commute and calls on the same   *)
(* key are last-write-wins: from every reachable state, for keys a # b,    *)
(* setRawValue(a, x) then setRawValue(b, y) gives the same snapshot        *)
(* (rawValues, validatedValues and errors included) as the reverse order,  *)
(* and setRawValue(a, x) then setRawValue(a, x2) gives the same snapshot   *)
(* as setRawValue(a, x2) alone.                                            *)
(***************************************************************************)
C26_SetRawValueCommutes ==
  \A a, b \in Fields, x, y \in RawInputs :
    LET ab == SetRawValueTransform(SetRawValueTransform(state, a, x), b, y)
        ba == SetRawValueTransform(SetRawValueTransform(state, b, y), a, x)
        b1 == SetRawValueTransform(state, b, y)
    IN  /\ a # b =>
             /\ ab.rawValues = ba.rawValues
             /\ isSome(ab.validatedValues) <=> isSome(ba.validatedValues)
             /\ isSome(ab.errors) <=> isSome(ba.errors)
             /\ ab = ba
        /\ a = b =>
             /\ ab.rawValues = b1.rawValues
             /\ isSome(ab.validatedValues) <=> isSome(b1.validatedValues)
             /\ isSome(ab.errors) <=> isSome(b1.errors)
             /\ ab = b1

\* a state with a submission in flight and a stale error in which writing
\* both keys, in either order, turns the form from invalid to valid
C26_Witness ==
  /\ state.isSubmitting
  /\ InvalidFields(state.rawValues) = Fields
  /\ LET ab == SetRawValueTransform(
                 SetRawValueTransform(state, "firstName", "x"), "lastName", "x")
     IN isSome(ab.validatedValues) /\ isNone(ab.errors)
  /\ state.touched = {"lastName"}

(***************************************************************************)
(* C27: in a bound form, a submission whose onSubmit handler failed does   *)
(* not stop submit handling: while the scope is open the submit listener   *)
(* is attached to the form element and the fiber that turns submit events  *)
(* into submit calls is running.                                           *)
(***************************************************************************)
C27_HandlerFailureKeepsSubmitHandling ==
  (/\ scope = "open"
   /\ pc[1] = "settled"
   /\ handlerExit[1] = Some(Failure(HandlerError)))
    => /\ "submit" \in listeners
       /\ task["submitListener"] = "running"

(***************************************************************************)
(* C28: in a bound form, onSubmit is never invoked for a submit event that *)
(* was dispatched while the handler of an earlier submission was running.  *)
(***************************************************************************)
C28_OverlappingSubmitEventRejected ==
  (isSome(handled) /\ handled.value.duringHandler) => isNone(onSubmitArg[1])

(***************************************************************************)
(* C29: in a bound form, the rawValues a submission captured hold, for     *)
(* every field, the value of the input events that preceded the submit     *)
(* event being handled: no field is captured with a value older than the   *)
(* one an earlier input event announced.                                   *)
(***************************************************************************)
C29_SubmitSeesEarlierInputs ==
  (isSome(handled) /\ WonGuard(1)) =>
    \A f \in DOMAIN handled.value.unapplied :
      guardRaw[1].value[f] = handled.value.unapplied[f]

(***************************************************************************)
(* C30: in the FormService form, the values a submission validates and     *)
(* the values it invokes onSubmit with are the values the state held at    *)
(* the moment submit was called, whatever a setValues call made after      *)
(* that moment wrote.                                                      *)
(***************************************************************************)
C30_ServiceSubmitSnapshot ==
  (isSome(valuesAtSubmit) /\ valuesAtSubmit.value.setValuesIdle) =>
    /\ isSome(valuesToValidate["submit"])
         => valuesToValidate["submit"].value = valuesAtSubmit.value.values
    /\ isSome(onSubmitValues)
         => onSubmitValues.value = valuesAtSubmit.value.values

(***************************************************************************)
(* C31: in the FormService form, a submit call that has set isSubmitting   *)
(* leaves it false on every exit path.  For the interruption of the        *)
(* running handler: once the call has been interrupted after onSubmit was  *)
(* invoked and before it ended, nothing of the call is left to run, so     *)
(* isSubmitting is false by then.                                          *)
(***************************************************************************)
C31_ServiceSubmitResetsFlag ==
  (/\ servicePc["submit"] = "interrupted"
   /\ isSome(onSubmitValues)
   /\ isNone(submitResult))
    => ~stateRef.isSubmitting

(***************************************************************************)
(* C32: in the FormService form, when two setValues calls that write       *)
(* different keys have both completed, in any interleaving of their steps, *)
(* stateRef.values holds, for every key either call wrote, the value that  *)
(* call wrote.                                                             *)
(***************************************************************************)
C32_SetValuesLosesNoUpdate ==
  (/\ \A p \in SetValuesFibers : isSome(writtenBy[p]) /\ servicePc[p] = "idle"
   /\ DOMAIN writtenBy["setValues"].value
        \cap DOMAIN writtenBy["setValues2"].value = {})
    => \A p \in SetValuesFibers :
         \A k \in DOMAIN writtenBy[p].value :
           stateRef.values[k] = writtenBy[p].value[k]

(***************************************************************************)
(* C33: in the FormService form, whenever no submit call is under way,     *)
(* submitCount is the number of submit calls that have returned (with a    *)
(* validation failure, a handler failure or a success) since the form was  *)
(* created or reset() was last called on it, with resetOnSubmit too.       *)
(***************************************************************************)
C33_SubmitCountCountsAttempts ==
  servicePc["submit"] = "idle" => stateRef.submitCount = attempts

(***************************************************************************)
(* C34: in the FormService form, isDirty is true exactly when the current  *)
(* values differ from initialValues in some field.                         *)
(***************************************************************************)
C34_DirtyIffValuesDiffer ==
  stateRef.isDirty <=> (\E f \in Fields :
                          stateRef.values[f] # stateRef.initialValues[f])

====
